---------------------------- MODULE Spec2Model ----------------------------
(***************************************************************************)
(* WaterKit: hydrogen-bond anchor discovery, neighbor traversal, anchor    *)
(* vector computation, the clash test, the TIP5P water rigid body and the  *)
(* layer loop of hydrate.                                                  *)
(*                                                                         *)
(* Atoms are identified by their OpenBabel Id (0-based).  SMARTS matches   *)
(* carry OpenBabel Idx values (1-based), as in the source.                 *)
(* Python lists are TLA+ sequences: Python index i is TLA+ index i + 1.    *)
(***************************************************************************)
EXTENDS Integers, Sequences, FiniteSets, TLC

VARIABLES
    mol,          \* the molecule (self._OBMol): atoms, bonds, atomic numbers
    na_pc,        \* neighbor_atoms: position ("idle", "loop", "done")
    na_args,      \* neighbor_atoms: start_index, depth, hydrogen
    queue,        \* neighbor_atoms: the BFS queue of (id, d)
    visited,      \* neighbor_atoms: visited flags, indexed by atom Id
    neighbors,    \* neighbor_atoms: nested list filled by the while loop
    na_ret,       \* neighbor_atoms: the returned nested list
    hv_pc,        \* _hb_vectors: position ("idle", "done")
    hv_args,      \* _hb_vectors: idx, hyb, n_hbond, hb_length and the geometry
    hv_ret,       \* _hb_vectors: the returned vectors, or the exception raised
    atom_types,   \* waterfield.get_atom_types(): the definitions, in declaration order
    ga_pc,        \* guess_hydrogen_bond_anchors: position
    ga_t,         \* ... how many names of the reversed key list were taken
    matches,      \* ... the matches of the current definition still to visit
    ga_visited,   \* ... its visited list, indexed by atom Idx
    data,         \* ... the rows collected so far
    stdout,       \* the warnings printed, one (idx, name) each
    hydrogen_bond_anchors,  \* self.hydrogen_bond_anchors: the sorted table
    processed,    \* history: the names whose matches were asked for, in order
    first_match,  \* history: per atom Idx, the first name with a match on it
    rematched,    \* history: the atoms a later definition matched again
    w_atoms,      \* Water: the atoms of its OBMol (oxygen first)
    w_bonds,      \* Water: the bonds of its OBMol, (begin Idx, end Idx) as added
    w_anchor,     \* Water: self._anchor[0], where the anchor atom is
    w_anchor_type,\* Water: self._anchor_type
    w_builds,     \* how many build_tip5p calls were made
    w_moves,      \* how many translate, rotate, update_coordinates calls were made
    w_last,       \* history: the last call on the water and how it ended
    w_energy,     \* Water.get_energy: how the last call ended, its grid lookups
    w_hb_anchors, \* Water: self.hydrogen_bond_anchors
    ic_pc,        \* is_clash: position ("idle", "done")
    ic_args,      \* is_clash: xyz, the reference coordinates, radius
    ic_ret,       \* is_clash: the returned boolean
    hy_pc,        \* hydrate: position
    hy_args,      \* hydrate: n_layer, n_sample
    hy_n,         \* hydrate: n, the sample being built
    hy_i,         \* hydrate: i, the layer counter of the while loop
    hy_box,       \* hydrate: w_ori, by the number of shells built into it
    water_boxes   \* Waterkit.water_boxes

naVars == <<na_pc, na_args, queue, visited, neighbors, na_ret>>
hvVars == <<hv_pc, hv_args, hv_ret>>
gaVars == <<atom_types, ga_pc, ga_t, matches, ga_visited, data, stdout,
            hydrogen_bond_anchors, processed, first_match, rematched>>
wVars == <<w_atoms, w_bonds, w_anchor, w_anchor_type, w_builds, w_moves,
           w_last, w_energy, w_hb_anchors>>
icVars == <<ic_pc, ic_args, ic_ret>>
hyVars == <<hy_pc, hy_args, hy_n, hy_i, hy_box, water_boxes>>
vars == <<mol, naVars, hvVars, gaVars, wVars, icVars, hyVars>>

---------------------------------------------------------------------------
(* Bounds of the model *)

\* Largest number of atoms of a molecule.
MaxAtoms == 4

\* Number of type definitions of a waterfield.
MaxDefs == 2

\* Largest number of matches of one definition.
MaxMatches == 2

\* Largest number of build_tip5p calls on one water.
MaxBuilds == 2

\* Largest number of translate, rotate and update_coordinates calls on one
\* water.
MaxMoves == 2

\* Largest number of atoms add_atom is called up to on one water.
MaxWaterAtoms == 5

\* Largest number of points tested by is_clash, and of atoms tested against.
MaxPoints == 2

\* Largest n_sample of a hydrate call.
MaxSamples == 2

---------------------------------------------------------------------------
(* Generic helpers *)

Min(S) == CHOOSE x \in S : \A y \in S : x <= y

RECURSIVE SetToSeq(_)
\* The elements of a finite set of integers in ascending order.
SetToSeq(S) == IF S = {} THEN <<>> ELSE <<Min(S)>> \o SetToSeq(S \ {Min(S)})

Range(s) == {s[k] : k \in 1..Len(s)}

\* s without its element at (1-based) position p.
RemoveAt(s, p) == [k \in 1..(Len(s) - 1) |-> IF k < p THEN s[k] ELSE s[k + 1]]

---------------------------------------------------------------------------
(* The molecule: what OpenBabel holds after Molecule.__init__ *)

Hydrogen == 1
Oxygen == 8

AllEdges(n) == {e \in (0..(n - 1)) \X (0..(n - 1)) : e[1] < e[2]}

Bonded(E, a) == {b \in 0..MaxAtoms : <<a, b>> \in E \/ <<b, a>> \in E}

RECURSIVE Reach(_, _)
Reach(E, S) ==
    LET T == S \cup UNION {Bonded(E, a) : a \in S}
    IN  IF T = S THEN S ELSE Reach(E, T)

\* The neighbor a bond gives to atom a.
Neighbor(bond, a) == IF bond[1] = a THEN bond[2] ELSE bond[1]

\* A molecule with n atoms, the bonds in the order they were added and the
\* atomic numbers z.  OBAtomAtomIter walks the bonds of an atom in the order
\* they were added.
MakeMol(n, bonds, z) ==
    [n |-> n,
     adj |-> [a \in 0..(n - 1) |->
                 LET Touches(bond) == bond[1] = a \/ bond[2] = a
                     own == SelectSeq(bonds, Touches)
                 IN  [k \in 1..Len(own) |-> Neighbor(own[k], a)]],
     anum |-> z]

\* Largest number of bonds of a molecule: a tree of MaxAtoms atoms, or a ring
\* of fewer.
MaxBonds == MaxAtoms - 1

\* The orders in which the bonds of a connected molecule of n atoms may have
\* been added.
BondOrders(n) ==
    UNION { {B \in [1..k -> AllEdges(n)] :
                /\ \A i, j \in 1..k : i # j => B[i] # B[j]
                /\ Reach(Range(B), {0}) = 0..(n - 1)} : k \in 0..MaxBonds }

\* Connected molecules of up to MaxAtoms atoms; a hydrogen has one bond at most.
Molecules ==
    UNION { { MakeMol(p[1], p[2], z) :
                z \in { f \in [0..(p[1] - 1) -> {Hydrogen, Oxygen}] :
                          \A a \in 0..(p[1] - 1) :
                              f[a] = Hydrogen => Cardinality(Bonded(Range(p[2]), a)) <= 1 } } :
            p \in UNION { {<<n, B>> : B \in BondOrders(n)} : n \in 1..MaxAtoms } }

NumAtoms(m) == m.n

---------------------------------------------------------------------------
(* Molecule._push_atom_to_end *)

\* idx = [i for i, x in enumerate(lst) if x.GetAtomicNum() == atomic_num]
\* (Python indexes, ascending)
AtomIdx(m, lst, atomic_num) ==
    SetToSeq({k - 1 : k \in {j \in 1..Len(lst) : m.anum[lst[j]] = atomic_num}})

\* lst.append(lst.pop(p)) for a Python index p
PopAppend(lst, p) == Append(RemoveAt(lst, p + 1), lst[p + 1])

\* The same loop without the pop_count correction.
RECURSIVE PushLoopNoCount(_, _, _)
PushLoopNoCount(lst, idx, pop_count) ==
    IF idx = <<>> THEN lst
    ELSE PushLoopNoCount(PopAppend(lst, Head(idx)), Tail(idx), pop_count + 1)

RECURSIVE PushLoop(_, _, _)
\* for i in idx: lst.append(lst.pop(i - pop_count)); pop_count += 1
PushLoop(lst, idx, pop_count) ==
    IF idx = <<>> THEN lst
    ELSE PushLoop(PopAppend(lst, Head(idx) - pop_count), Tail(idx), pop_count + 1)

\* Called with the single atomic number 1 (line 254), which the function
\* wraps into a one-element list: one round of the outer loop.
PushAtomToEnd(m, lst, atomic_num) == PushLoop(lst, AtomIdx(m, lst, atomic_num), 0)

---------------------------------------------------------------------------
(* Molecule.neighbor_atoms *)

\* hydrogen=True keeps every atom (atomic number >= 1), False drops hydrogens.
AtomicNumToKeep(hydrogen) == IF hydrogen THEN 1 ELSE 2

\* The state of the traversal before the while loop.
BfsStart(m, start_index) ==
    [queue |-> << <<start_index, 0>> >>,
     visited |-> [a \in 0..NumAtoms(m) |-> FALSE],
     neighbors |-> <<>>]

\* One round of the while loop: pop the head, file it under its depth, mark
\* it visited, and queue its unvisited neighbors when d < depth.
BfsPop(m, st, depth, keep) ==
    LET i == Head(st.queue)[1]
        d == Head(st.queue)[2]
        nb == IF d + 1 <= Len(st.neighbors)
              THEN [st.neighbors EXCEPT ![d + 1] = Append(@, i)]
              ELSE Append(st.neighbors, <<i>>)
        vis == [st.visited EXCEPT ![i] = TRUE]
        Keep(a) == ~vis[a] /\ m.anum[a] >= keep
        todo == SelectSeq(m.adj[i], Keep)
        more == IF d < depth
                THEN [k \in 1..Len(todo) |-> <<todo[k], d + 1>>]
                ELSE <<>>
    IN  [queue |-> Tail(st.queue) \o more, visited |-> vis, neighbors |-> nb]

\* neighbors = [self._push_atom_to_end(x, 1) for x in neighbors]
PushLevels(m, nb) == [l \in 1..Len(nb) |-> PushAtomToEnd(m, nb[l], Hydrogen)]

RECURSIVE BfsRun(_, _, _, _)
BfsRun(m, st, depth, keep) ==
    IF st.queue = <<>> THEN st ELSE BfsRun(m, BfsPop(m, st, depth, keep), depth, keep)

\* The whole function, as its callers see it.
NeighborAtoms(m, start_index, depth, hydrogen) ==
    PushLevels(m, BfsRun(m, BfsStart(m, start_index), depth,
                         AtomicNumToKeep(hydrogen)).neighbors)

\* The depths the program asks for: the default (1) and _hb_vectors' (2).
Depths == {1, 2}

NA_Call ==
    /\ na_pc \in {"idle", "done"}
    /\ \E s \in 0..(NumAtoms(mol) - 1), dp \in Depths, h \in BOOLEAN :
         /\ na_args' = [start_index |-> s, depth |-> dp, hydrogen |-> h]
         /\ queue' = BfsStart(mol, s).queue
         /\ visited' = BfsStart(mol, s).visited
         /\ neighbors' = BfsStart(mol, s).neighbors
    /\ na_ret' = <<>>
    /\ na_pc' = "loop"
    /\ UNCHANGED <<mol, icVars, hyVars, hvVars, gaVars, wVars>>

NA_Pop ==
    /\ na_pc = "loop"
    /\ queue # <<>>
    /\ LET st == BfsPop(mol, [queue |-> queue, visited |-> visited, neighbors |-> neighbors],
                        na_args.depth, AtomicNumToKeep(na_args.hydrogen))
       IN  /\ queue' = st.queue
           /\ visited' = st.visited
           /\ neighbors' = st.neighbors
    /\ UNCHANGED <<mol, icVars, hyVars, na_pc, na_args, na_ret, hvVars, gaVars, wVars>>

NA_Return ==
    /\ na_pc = "loop"
    /\ queue = <<>>
    /\ na_ret' = PushLevels(mol, neighbors)
    /\ na_pc' = "done"
    /\ UNCHANGED <<mol, icVars, hyVars, na_args, queue, visited, neighbors, hvVars, gaVars, wVars>>

NaIdle ==
    /\ na_pc = "idle"
    /\ na_args = [start_index |-> 0, depth |-> 1, hydrogen |-> TRUE]
    /\ queue = <<>>
    /\ visited = <<>>
    /\ neighbors = <<>>
    /\ na_ret = <<>>

---------------------------------------------------------------------------
(* The vector helpers of utils, seen through what they do to the distance   *)
(* of a point from the anchor atom.  A point is [dist, angle]: its distance *)
(* from the anchor and the angle of the last rotation applied to it about   *)
(* an axis through the anchor (degrees; 0 when it was never rotated).       *)
(* Lengths are whole numbers of an arbitrary unit.                          *)

\* The length of a normalized vector.
UnitLen == 1

Point(dist) == [dist |-> dist, angle |-> 0]

\* utils.atom_to_move(anchor, points): a point one normalized vector away
\* from the anchor, on the side away from the given points.
AtomToMove == Point(UnitLen)

\* utils.rotate_point(point, anchor, r, angle): a rigid rotation about a line
\* through the anchor keeps the distance from the anchor.
RotatePoint(pt, angle) == [pt EXCEPT !.angle = angle]

\* utils.resize_vector(point, length, anchor): the point moved along its
\* direction from the anchor to the distance length.
ResizeVector(pt, length) == [pt EXCEPT !.dist = length]

---------------------------------------------------------------------------
(* Molecule._hb_vectors *)

Raise(kind) == [ok |-> FALSE, err |-> kind, vectors |-> <<>>]
Return(vs) == [ok |-> TRUE, err |-> "", vectors |-> vs]

\* np.radians(109.471) of line 436, in whole degrees.
TetrahedralTilt == 109

\* The body of the final loop with the rescaling inside the rotation branch.
HbVectorResizeIfRotated(p, angle, hb_length) ==
    IF angle # 0 THEN ResizeVector(RotatePoint(p, angle), hb_length) ELSE p

\* The body of the final loop "for angle in angles" (lines 443-447).
HbVector(p, angle, hb_length) ==
    LET vector == IF angle # 0 THEN RotatePoint(p, angle) ELSE p
    IN  ResizeVector(vector, hb_length)

\* What lines 358-439 leave behind: the base point p and the angles, or the
\* exception of a neighbor that is not there, or nothing ("unset") when no
\* branch assigned them.  lv is the nested neighbor list (depth 2), d1 the
\* distance between the anchor and its first neighbor.
HbCase(lv, hyb, n_hbond, d1) ==
    LET n1 == IF Len(lv) >= 2 THEN Len(lv[2]) ELSE 0
        has2 == Len(lv) >= 3
        Set(p, angles) == [kind |-> "set", p |-> p, angles |-> angles]
        Unset == [kind |-> "unset", p |-> Point(0), angles |-> <<>>]
        Error == [kind |-> "IndexError", p |-> Point(0), angles |-> <<>>]
        \* the if/elif on hyb == 1 and hyb == 2 (lines 358-392)
        first ==
            IF hyb = 1 /\ n_hbond = 1 THEN Set(Point(d1), <<0>>)
            ELSE IF hyb = 2 /\ n_hbond = 1
                 THEN IF n1 >= 2 THEN Set(AtomToMove, <<0>>) ELSE Error
            ELSE IF hyb = 2 /\ n_hbond = 2
                 THEN IF has2 THEN Set(Point(d1), <<0 - 120, 120>>) ELSE Error
            ELSE Unset
        \* hyb 1 and 2 with three contacts go on as hyb 3 (lines 367, 391)
        hyb3 == hyb = 3 \/ (hyb \in {1, 2} /\ n_hbond = 3)
        \* the if on hyb == 3 (lines 394-439)
        second ==
            IF n1 < 2 THEN Error
            ELSE IF n_hbond = 1
                 THEN IF n1 >= 3 THEN Set(AtomToMove, <<0>>) ELSE Error
            ELSE IF n_hbond = 2 THEN Set(AtomToMove, <<0 - 60, 60>>)
            ELSE IF n_hbond = 3
                 THEN Set(RotatePoint(Point(d1), TetrahedralTilt), <<0, 0 - 120, 120>>)
            ELSE Unset
    IN  IF n1 < 1 THEN Error            \* neighbors_xyz[1][0], line 356
        ELSE IF first.kind = "IndexError" THEN first
        ELSE IF hyb3 THEN second
        ELSE first

HbVectors(m, idx, hyb, n_hbond, hb_length, d1) ==
    LET c == HbCase(NeighborAtoms(m, idx, 2, TRUE), hyb, n_hbond, d1)
    IN  IF c.kind = "IndexError" THEN Raise("IndexError")
        ELSE IF c.kind = "unset" THEN Raise("UnboundLocalError")
        ELSE Return([k \in 1..Len(c.angles) |-> HbVector(c.p, c.angles[k], hb_length)])

\* The inputs of the model: hybridizations 1..3 of the design table and 4
\* outside it, contact counts 1..3, two bond lengths, two first-neighbor
\* distances.
Hybridizations == 1..4
ContactCounts == 1..3
BondLengths == {2, 3}
NeighborDistances == {1, 2}

HV_Call ==
    /\ hv_pc = "idle"
    /\ \E idx \in 0..(NumAtoms(mol) - 1), hyb \in Hybridizations, n \in ContactCounts,
          len \in BondLengths, d1 \in NeighborDistances :
         /\ hv_args' = [idx |-> idx, hyb |-> hyb, n_hbond |-> n, hb_length |-> len, d1 |-> d1]
         /\ hv_ret' = HbVectors(mol, idx, hyb, n, len, d1)
    /\ hv_pc' = "done"
    /\ UNCHANGED <<mol, icVars, hyVars, naVars, gaVars, wVars>>

\* The caller drops the result.
HV_Drop ==
    /\ hv_pc = "done"
    /\ hv_pc' = "idle"
    /\ hv_args' = [idx |-> 0, hyb |-> 0, n_hbond |-> 0, hb_length |-> 0, d1 |-> 0]
    /\ hv_ret' = Return(<<>>)
    /\ UNCHANGED <<mol, icVars, hyVars, naVars, gaVars, wVars>>

HvIdle ==
    /\ hv_pc = "idle"
    /\ hv_args = [idx |-> 0, hyb |-> 0, n_hbond |-> 0, hb_length |-> 0, d1 |-> 0]
    /\ hv_ret = Return(<<>>)

---------------------------------------------------------------------------
(* Molecule.guess_hydrogen_bond_anchors *)

\* The names of a waterfield, in declaration order.
TypeNames == <<"H_O_004", "O_L_000", "O_R_001", "N_R_002", "S_R_003", "P_R_005">>

\* What a definition may say: a linear donor, a planar acceptor with two
\* waters, a definition without a role (hb_type 0), and an acceptor whose
\* hybridization/contact-count pair (1, 2) the design table does not hold.
TypeKinds ==
    { [hb_type |-> 1, hyb |-> 1, n_water |-> 1, hb_length |-> 2],
      [hb_type |-> 2, hyb |-> 2, n_water |-> 2, hb_length |-> 3],
      [hb_type |-> 0, hyb |-> 3, n_water |-> 1, hb_length |-> 3],
      [hb_type |-> 2, hyb |-> 1, n_water |-> 2, hb_length |-> 3] }

Waterfields == [1..MaxDefs -> TypeKinds]

\* The pairs of the design table of _hb_vectors.
InDesignTable(hyb, n) == hyb \in 1..3 /\ n \in 1..3 /\ ~(hyb = 1 /\ n = 2)

\* atom_types.keys(), in declaration order.
Keys(types) == [k \in 1..Len(types) |-> TypeNames[k]]

Reverse(s) == [k \in 1..Len(s) |-> s[Len(s) + 1 - k]]

\* The key list walked as declared.
KeysAsDeclared(types) == Keys(types)

\* atom_types.keys()[::-1] (line 317)
ReversedKeys(types) == Reverse(Keys(types))

\* atom_types[name]
TypeOf(types, name) == types[CHOOSE k \in 1..Len(types) : TypeNames[k] = name]

\* Lines 321-326.
HbType(atom_type) ==
    IF atom_type.hb_type = 1 THEN "donor"
    ELSE IF atom_type.hb_type = 2 THEN "acceptor"
    ELSE "None"

\* The distance between bonded atoms in the molecules of the anchor pass.
BondDist == Min(NeighborDistances)

\* An except clause that names IndexError only.
CaughtIndexErrorOnly(err) == err = "IndexError"

\* "except:" (line 342) catches every exception.
Caught(err) == TRUE

\* The rows one successful _hb_vectors call adds (lines 340-341).
Rows(idx, vectors, hb_type, name) ==
    [k \in 1..Len(vectors) |->
        [atom_i |-> idx - 1, vector_xyz |-> vectors[k], anchor_type |-> hb_type,
         anchor_name |-> name]]

\* The loop body without the visited bookkeeping of a role-bearing match.
ProcessMatchNoMark(m, vis, dat, out, idx, atom_type, name) ==
    LET hb_type == HbType(atom_type)
        res == HbVectors(m, idx - 1, atom_type.hyb, atom_type.n_water,
                         atom_type.hb_length, BondDist)
    IN  IF hb_type = "None" THEN [visited |-> [vis EXCEPT ![idx] = TRUE], data |-> dat,
                                  stdout |-> out, escaped |-> FALSE]
        ELSE IF vis[idx] THEN [visited |-> vis, data |-> dat, stdout |-> out, escaped |-> FALSE]
        ELSE IF res.ok THEN [visited |-> vis, data |-> dat \o Rows(idx, res.vectors, hb_type, name),
                             stdout |-> out, escaped |-> FALSE]
        ELSE [visited |-> vis, data |-> dat, stdout |-> Append(out, <<idx, name>>),
              escaped |-> FALSE]

\* The loop body with a role-less match not marking its atom.
ProcessMatchNoneUnmarked(m, vis, dat, out, idx, atom_type, name) ==
    LET hb_type == HbType(atom_type)
        res == HbVectors(m, idx - 1, atom_type.hyb, atom_type.n_water,
                         atom_type.hb_length, BondDist)
    IN  IF hb_type = "None" \/ vis[idx]
        THEN [visited |-> vis, data |-> dat, stdout |-> out, escaped |-> FALSE]
        ELSE IF res.ok THEN [visited |-> [vis EXCEPT ![idx] = TRUE],
                             data |-> dat \o Rows(idx, res.vectors, hb_type, name),
                             stdout |-> out, escaped |-> FALSE]
        ELSE [visited |-> [vis EXCEPT ![idx] = TRUE], data |-> dat,
              stdout |-> Append(out, <<idx, name>>), escaped |-> FALSE]

\* The body of "for match in matches" (lines 329-343) for idx = match[0]:
\* the new visited list, rows and printed warnings, and whether an exception
\* left the body.
ProcessMatch(m, vis, dat, out, idx, atom_type, name) ==
    LET hb_type == HbType(atom_type)
        \* lines 331-332
        vis1 == IF hb_type = "None" /\ ~vis[idx] THEN [vis EXCEPT ![idx] = TRUE] ELSE vis
        \* line 339
        res == HbVectors(m, idx - 1, atom_type.hyb, atom_type.n_water,
                         atom_type.hb_length, BondDist)
    IN  IF vis1[idx]                                               \* line 334
        THEN [visited |-> vis1, data |-> dat, stdout |-> out, escaped |-> FALSE]
        ELSE LET vis2 == [vis1 EXCEPT ![idx] = TRUE]               \* line 335
             IN  IF res.ok
                 THEN [visited |-> vis2,
                       data |-> dat \o Rows(idx, res.vectors, hb_type, name),
                       stdout |-> out, escaped |-> FALSE]
                 ELSE IF Caught(res.err)
                 THEN [visited |-> vis2, data |-> dat,
                       stdout |-> Append(out, <<idx, name>>), escaped |-> FALSE]
                 ELSE [visited |-> vis2, data |-> dat, stdout |-> out, escaped |-> TRUE]

RECURSIVE InsertByAtom(_, _)
\* row put into the sorted table s behind the rows of the same or a smaller atom_i
InsertByAtom(s, row) ==
    IF s = <<>> THEN <<row>>
    ELSE IF s[Len(s)].atom_i <= row.atom_i THEN Append(s, row)
    ELSE Append(InsertByAtom(SubSeq(s, 1, Len(s) - 1), row), s[Len(s)])

RECURSIVE SortByAtom(_)
\* sort_values(by="atom_i") (line 346).  The tables of the model are short, and
\* numpy sorts short arrays by insertion: rows of one atom keep their order.
SortByAtom(rows) ==
    IF rows = <<>> THEN <<>>
    ELSE InsertByAtom(SortByAtom(SubSeq(rows, 1, Len(rows) - 1)), rows[Len(rows)])

\* The match lists waterfield.get_matches may return: the anchor atom
\* (match[0], an Idx) of each match.
RECURSIVE MatchLists(_, _)
MatchLists(n, len) ==
    IF len = 0 THEN {<<>>}
    ELSE MatchLists(n, len - 1) \cup
         {Append(l, i) : l \in {x \in MatchLists(n, len - 1) : Len(x) = len - 1}, i \in 1..n}

\* Lines 309-315.
GA_Call ==
    /\ ga_pc = "idle"
    /\ data' = <<>>
    /\ ga_visited' = [i \in 0..NumAtoms(mol) |-> FALSE]
    /\ ga_t' = 0
    /\ ga_pc' = "types"
    /\ UNCHANGED <<mol, icVars, hyVars, naVars, hvVars, wVars, atom_types, matches, stdout,
                   hydrogen_bond_anchors, processed, first_match, rematched>>

\* Lines 317-326: the next name of the reversed key list and its matches.
GA_Type ==
    /\ ga_pc = "types"
    /\ ga_t < Len(atom_types)
    /\ ga_t' = ga_t + 1
    /\ matches' \in MatchLists(NumAtoms(mol), MaxMatches)
    /\ processed' = Append(processed, ReversedKeys(atom_types)[ga_t + 1])
    /\ ga_pc' = "matches"
    /\ UNCHANGED <<mol, icVars, hyVars, naVars, hvVars, wVars, atom_types, ga_visited, data, stdout,
                   hydrogen_bond_anchors, first_match, rematched>>

\* Lines 328-343: one match.
GA_Match ==
    /\ ga_pc = "matches"
    /\ matches # <<>>
    /\ LET name == ReversedKeys(atom_types)[ga_t]
           idx == Head(matches)
           r == ProcessMatch(mol, ga_visited, data, stdout, idx,
                             TypeOf(atom_types, name), name)
       IN  /\ ga_visited' = r.visited
           /\ data' = r.data
           /\ stdout' = r.stdout
           /\ ga_pc' = IF r.escaped THEN "raised" ELSE "matches"
           /\ first_match' = IF first_match[idx] = "" THEN [first_match EXCEPT ![idx] = name]
                             ELSE first_match
           /\ rematched' = IF first_match[idx] \notin {"", name} THEN rematched \cup {idx}
                           ELSE rematched
    /\ matches' = Tail(matches)
    /\ UNCHANGED <<mol, icVars, hyVars, naVars, hvVars, wVars, atom_types, ga_t, hydrogen_bond_anchors, processed>>

\* The matches of the current definition are used up.
GA_EndType ==
    /\ ga_pc = "matches"
    /\ matches = <<>>
    /\ ga_pc' = "types"
    /\ UNCHANGED <<mol, icVars, hyVars, naVars, hvVars, wVars, atom_types, ga_t, matches, ga_visited, data, stdout,
                   hydrogen_bond_anchors, processed, first_match, rematched>>

\* Lines 345-346.
GA_Finish ==
    /\ ga_pc = "types"
    /\ ga_t = Len(atom_types)
    /\ hydrogen_bond_anchors' = SortByAtom(data)
    /\ ga_pc' = "done"
    /\ UNCHANGED <<mol, icVars, hyVars, naVars, hvVars, wVars, atom_types, ga_t, matches, ga_visited, data, stdout,
                   processed, first_match, rematched>>

GaIdle ==
    /\ ga_pc = "idle"
    /\ ga_t = 0
    /\ matches = <<>>
    /\ ga_visited = <<>>
    /\ data = <<>>
    /\ stdout = <<>>
    /\ hydrogen_bond_anchors = <<>>
    /\ processed = <<>>
    /\ first_match = [i \in 1..NumAtoms(mol) |-> ""]
    /\ rematched = {}

\* The molecule of the anchor pass: a chain of three heavy atoms.  Its end
\* atoms have one neighbor and one atom two bonds away, its middle atom has two
\* neighbors and no atom two bonds away.
AnchorMolecules ==
    { MakeMol(3, <<<<0, 1>>, <<1, 2>>>>, [a \in 0..2 |-> Oxygen]) }

---------------------------------------------------------------------------
(* Water *)

(* Where an atom of a water is.  Positions are kept relative to the oxygen: *)
(*   at     where the oxygen of the atom's frame is, on the line through    *)
(*          the anchor atom (whole units; translations add to it);          *)
(*   slot   the construction point ("O", "a1" .. "a4" of build_tip5p);      *)
(*   toward the side of the oxygen the anchor atom lay on at construction;  *)
(*   dist   the distance from the oxygen, in 1e-4 Angstrom;                 *)
(*   angle  the angle of the rotation that placed it, in 1e-3 degree;       *)
(*   rot    the rotations applied since, each (ref_id, degrees), with       *)
(*          successive rotations about the same reference atom added up.    *)

\* 0.9572 and 0.7 Angstrom (lines 84, 87)
DistH == 9572
DistLp == 7000
\* 104.52 and 109.47 degrees (lines 85, 88)
AngleHOH == 104520
AngleLpOLp == 109470

Site(at, slot, toward, dist, angle) ==
    [at |-> at, slot |-> slot, toward |-> toward, dist |-> dist, angle |-> angle, rot |-> <<>>]

\* a.SetVector / SetType / SetAtomicNum on a new atom, and the bond (lines
\* 36-45); OBMol.AddBond adds no bond between atoms the molecule does not have.
AddAtom(w, atom_xyz, atom_type, atom_num, bond) ==
    LET atoms == Append(w.atoms, [xyz |-> atom_xyz, type |-> atom_type, num |-> atom_num])
    IN  [atoms |-> atoms,
         bonds |-> IF /\ bond # <<>>
                      /\ Len(atoms) >= 1
                      /\ bond[1] \in 1..Len(atoms)
                      /\ bond[2] \in 1..Len(atoms)
                   THEN Append(w.bonds, <<bond[1], bond[2]>>) ELSE w.bonds]

\* Water.update_coordinates: GetAtomById gives None for an id that is no
\* atom, and None has no SetVector.
UpdateCoordinates(w, atom_xyz, atom_id) ==
    IF atom_id \notin 0..(Len(w.atoms) - 1)
    THEN [atoms |-> w.atoms, bonds |-> w.bonds, err |-> "AttributeError"]
    ELSE [atoms |-> [w.atoms EXCEPT ![atom_id + 1].xyz = atom_xyz],
          bonds |-> w.bonds, err |-> ""]

\* The names a Water object has: every def of class Water (water.py), every
\* def of class Molecule (molecule.py), which it inherits, and the fields
\* Water.__init__ assigns (lines 21-30).
WaterMethods ==
    {"__init__", "add_atom", "update_coordinates", "get_energy", "build_tip5p",
     "guess_hydrogen_bond_anchors", "translate", "rotate"}

MoleculeMethods ==
    {"__init__", "__copy__", "__deepcopy__", "from_file",
     "_atom_types_from_pdbqt_file", "is_water", "atom", "residue", "coordinates",
     "atom_types", "partial_charges", "atom_informations", "is_clash",
     "_push_atom_to_end", "neighbor_atoms", "neighbor_atom_coordinates",
     "guess_rotatable_bonds", "guess_hydrogen_bond_anchors", "_hb_vectors",
     "to_file", "export_hb_vectors"}

WaterFields == {"_OBMol", "_anchor", "_anchor_type", "_previous"}

\* The names with the three accessors water.py calls bound as well.
HasAttrAccessorsBound(name) ==
    name \in WaterMethods \cup MoleculeMethods \cup WaterFields
              \cup {"get_coordinates", "get_atom_types", "_get_hb_vectors"}

\* self.name on a water as __init__ leaves it: a name that is neither a
\* method of the two classes nor a field raises AttributeError where it is
\* read.
HasAttr(name) == name \in WaterMethods \cup MoleculeMethods \cup WaterFields

\* How a call on a water ends: the water it leaves and the exception it
\* raised ("" when it returned).
Raised(w, err) == [atoms |-> w.atoms, bonds |-> w.bonds, err |-> err]
Returned(w) == Raised(w, "")

\* Water.__init__: the oxygen alone (line 23).
NewWater(oxygen_at, oxygen_type) ==
    AddAtom([atoms |-> <<>>, bonds |-> <<>>], Site(oxygen_at, "O", 0, 0, 0),
            oxygen_type, Oxygen, <<>>)

\* utils.normalize(utils.vector(a, b)) on the line: the side b lies on, seen
\* from a; 0 stands for the zero vector, which cannot be normalized.
Direction(a, b) == IF b > a THEN 1 ELSE IF b < a THEN 0 - 1 ELSE 0

\* d of lines 83-88
Tip5pDistances(anchor_type) ==
    IF anchor_type = "acceptor" THEN <<DistH, DistH, DistLp, DistLp>>
    ELSE <<DistLp, DistLp, DistH, DistH>>

\* a of lines 83-88
Tip5pAngles(anchor_type) ==
    IF anchor_type = "acceptor" THEN <<AngleHOH, AngleLpOLp>>
    ELSE <<AngleLpOLp, AngleHOH>>

\* atoms of lines 113-116
Tip5pOrder(anchor_type, a1, a2, a3, a4) ==
    IF anchor_type = "acceptor" THEN <<a1, a2, a3, a4>> ELSE <<a3, a4, a1, a2>>

\* atom_types of line 118
Tip5pTypes == <<"HD", "HD", "Lp", "Lp">>

RECURSIVE AddAtoms(_, _, _, _)
\* The loop of lines 120-123, from its k-th round on.
AddAtoms(w, atoms, types, k) ==
    IF k > Len(atoms) THEN w
    ELSE AddAtoms(AddAtom(w, atoms[k], types[k], Hydrogen, <<1, k + 1, 1>>),
                  atoms, types, k + 1)

\* a1 .. a4 of lines 99-110, about the oxygen at coord_oxygen with the anchor
\* atom on the side v.
Tip5pPoints(coord_oxygen, v, anchor_type) ==
    LET d == Tip5pDistances(anchor_type)
        a == Tip5pAngles(anchor_type)
    IN  <<Site(coord_oxygen, "a1", v, d[1], 0),
          Site(coord_oxygen, "a2", v, d[2], a[1]),
          Site(coord_oxygen, "a3", v, d[4], a[2] \div 2),
          Site(coord_oxygen, "a4", v, d[4], 0 - (a[2] \div 2))>>

\* Water.build_tip5p.  self.get_coordinates (line 90) is read before any
\* point is computed: neither Water nor Molecule has it, so the call raises
\* AttributeError there and the water stays as it was.  With the name bound,
\* the four points are computed from the oxygen and the anchor atom before
\* the first atom is added, and a zero vector between the two fails in
\* normalize.
BuildTip5p(w, anchor, anchor_type) ==
    IF ~HasAttr("get_coordinates") THEN Raised(w, "AttributeError")
    ELSE LET coord_oxygen == w.atoms[1].xyz.at
             v == Direction(coord_oxygen, anchor)
             pts == Tip5pPoints(coord_oxygen, v, anchor_type)
         IN  IF v = 0 THEN Raised(w, "DegenerateVector")
             ELSE Returned(AddAtoms(w, Tip5pOrder(anchor_type, pts[1], pts[2], pts[3], pts[4]),
                                    Tip5pTypes, 1))

RECURSIVE UpdateAll(_, _, _)
\* The loop of lines 155-156 from atom k on: update_coordinates atom by atom.
UpdateAll(w, water_xyz, k) ==
    IF k > Len(water_xyz) THEN Returned(w)
    ELSE LET ret == UpdateCoordinates(w, water_xyz[k], k - 1)
         IN  IF ret.err # "" THEN ret ELSE UpdateAll(ret, water_xyz, k + 1)

\* Water.translate.  self.get_coordinates (line 154) raises AttributeError
\* before any atom moves; with the name bound every atom moves by the vector.
Translate(w, vector) ==
    IF ~HasAttr("get_coordinates") THEN Raised(w, "AttributeError")
    ELSE UpdateAll(w, [k \in 1..Len(w.atoms) |->
                          [w.atoms[k].xyz EXCEPT !.at = @ + vector]], 1)

\* One more rotation of a point about the axis through the oxygen and the
\* atom ref_id.
Turned(rot, ref_id, angle) ==
    IF rot # <<>> /\ rot[Len(rot)][1] = ref_id
    THEN LET sum == (rot[Len(rot)][2] + angle) % 360
         IN  IF sum = 0 THEN SubSeq(rot, 1, Len(rot) - 1)
             ELSE [rot EXCEPT ![Len(rot)] = <<ref_id, sum>>]
    ELSE IF angle % 360 = 0 THEN rot
    ELSE Append(rot, <<ref_id, angle % 360>>)

\* Water.rotate.  self.get_coordinates (line 162) raises AttributeError
\* before any atom moves.  With the name bound, water_xyz[ref_id] fails for a
\* ref_id that is no atom, and the oxygen itself (ref_id 0) gives no axis and
\* is not in the list atom_ids.remove takes it from.
Rotate(w, angle, ref_id) ==
    IF ~HasAttr("get_coordinates") THEN Raised(w, "AttributeError")
    ELSE IF ref_id >= Len(w.atoms) THEN Raised(w, "IndexError")
    ELSE IF ref_id < 1 THEN Raised(w, "DegenerateVector")
    ELSE Returned([w EXCEPT !.atoms =
             [k \in 1..Len(w.atoms) |->
                 IF k - 1 \in (1..(Len(w.atoms) - 1)) \ {ref_id}
                 THEN [w.atoms[k] EXCEPT !.xyz.rot = Turned(@, ref_id, angle)]
                 ELSE w.atoms[k]]])

TheWater == [atoms |-> w_atoms, bonds |-> w_bonds]

\* History of the calls on the water: the last call, the exception it raised
\* ("" when it returned) and, for build_tip5p and rotate, the atoms before it;
\* when the call before a rotate was rotate with the opposite angle about the
\* same reference atom, also the atoms before that call (origin).
NoCall ==
    [op |-> "none", angle |-> 0, ref_id |-> 0, before |-> <<>>,
     undoes |-> FALSE, origin |-> <<>>, err |-> ""]

Call(op, before, err) == [NoCall EXCEPT !.op = op, !.before = before, !.err = err]

RotateCall(last, atoms, angle, ref_id, err) ==
    LET undoes == last.op = "rotate" /\ last.angle = 0 - angle /\ last.ref_id = ref_id
    IN  [op |-> "rotate", angle |-> angle, ref_id |-> ref_id, before |-> atoms,
         undoes |-> undoes, origin |-> IF undoes THEN last.before ELSE <<>>,
         err |-> err]

\* The atom types a caller of add_atom gives a satellite.
SatelliteTypes == {"HD", "Lp"}

\* A call of add_atom from outside the class, as build_tip5p makes it for
\* its next atom: the point of the next satellite of the water's role, one
\* of the two satellite types, atomic number 1 and the bond from the oxygen.
W_AddAtom ==
    /\ w_atoms # <<>>
    /\ Len(w_atoms) < MaxWaterAtoms
    /\ \E atom_type \in SatelliteTypes :
           LET coord_oxygen == w_atoms[1].xyz.at
               pts == Tip5pPoints(coord_oxygen, Direction(coord_oxygen, w_anchor),
                                  w_anchor_type)
               atoms == Tip5pOrder(w_anchor_type, pts[1], pts[2], pts[3], pts[4])
               i == Len(w_atoms) + 1
               ret == AddAtom(TheWater, atoms[((i - 2) % 4) + 1], atom_type, Hydrogen,
                              <<1, i, 1>>)
           IN  /\ w_atoms' = ret.atoms
               /\ w_bonds' = ret.bonds
    /\ w_last' = Call("add_atom", <<>>, "")
    /\ UNCHANGED <<mol, icVars, hyVars, naVars, hvVars, gaVars, w_anchor, w_anchor_type,
                   w_builds, w_moves, w_energy, w_hb_anchors>>

\* A call of update_coordinates from outside the class: one atom, or an id
\* that is no atom, moved one unit along the line.
W_UpdateCoordinates ==
    /\ w_atoms # <<>>
    /\ w_moves < MaxMoves
    /\ w_moves' = w_moves + 1
    /\ \E atom_id \in 0..Len(w_atoms) :
           LET k == IF atom_id < Len(w_atoms) THEN atom_id + 1 ELSE 1
               ret == UpdateCoordinates(TheWater, [w_atoms[k].xyz EXCEPT !.at = @ + 1],
                                        atom_id)
           IN  /\ w_atoms' = ret.atoms
               /\ w_last' = Call("update_coordinates", <<>>, ret.err)
    /\ UNCHANGED <<mol, icVars, hyVars, naVars, hvVars, gaVars, w_bonds, w_anchor,
                   w_anchor_type, w_builds, w_energy, w_hb_anchors>>

W_BuildTip5p ==
    /\ w_atoms # <<>>
    /\ w_builds < MaxBuilds
    /\ w_builds' = w_builds + 1
    /\ LET ret == BuildTip5p(TheWater, w_anchor, w_anchor_type)
       IN  /\ w_atoms' = ret.atoms
           /\ w_bonds' = ret.bonds
           /\ w_last' = Call("build_tip5p", w_atoms, ret.err)
    /\ UNCHANGED <<mol, icVars, hyVars, naVars, hvVars, gaVars, w_anchor, w_anchor_type,
                   w_moves, w_energy, w_hb_anchors>>

\* The vectors of the translations and the angles of the rotations of the model.
TranslateVectors == {0 - 1, 1}
RotateAngles == {0 - 90, 90}

W_Translate ==
    /\ w_atoms # <<>>
    /\ w_moves < MaxMoves
    /\ w_moves' = w_moves + 1
    /\ \E vector \in TranslateVectors :
           LET ret == Translate(TheWater, vector)
           IN  /\ w_atoms' = ret.atoms
               /\ w_last' = Call("translate", <<>>, ret.err)
    /\ UNCHANGED <<mol, icVars, hyVars, naVars, hvVars, gaVars, w_bonds, w_anchor,
                   w_anchor_type, w_builds, w_energy, w_hb_anchors>>

W_Rotate ==
    /\ w_atoms # <<>>
    /\ w_moves < MaxMoves
    /\ w_moves' = w_moves + 1
    /\ \E angle \in RotateAngles, ref_id \in 0..Len(w_atoms) :
           LET ret == Rotate(TheWater, angle, ref_id)
           IN  /\ w_atoms' = ret.atoms
               /\ w_last' = RotateCall(w_last, w_atoms, angle, ref_id, ret.err)
    /\ UNCHANGED <<mol, icVars, hyVars, naVars, hvVars, gaVars, w_bonds, w_anchor,
                   w_anchor_type, w_builds, w_energy, w_hb_anchors>>

\* atom_ids of Molecule.coordinates and Molecule.atom_types: None stands for
\* every atom, a single id for the list holding it.
None == [none |-> TRUE, ids |-> <<>>]
Ids(ids) == [none |-> FALSE, ids |-> ids]

AtomIds(w, atom_ids) ==
    IF atom_ids.none THEN [k \in 1..Len(w.atoms) |-> k - 1] ELSE atom_ids.ids

\* Molecule.coordinates and Molecule.atom_types
Coordinates(w, atom_ids) ==
    [k \in 1..Len(AtomIds(w, atom_ids)) |-> w.atoms[AtomIds(w, atom_ids)[k] + 1].xyz]

AtomTypes(w, atom_ids) ==
    [k \in 1..Len(AtomIds(w, atom_ids)) |-> w.atoms[AtomIds(w, atom_ids)[k] + 1].type]

\* atom_id of get_energy when the caller gave none (lines 58-65): for any
\* other number of atoms it stays None.
DefaultAtomId(n_atoms) ==
    IF n_atoms = 1 THEN Ids(<<0>>)
    ELSE IF n_atoms = 5 THEN Ids(<<1, 2, 3, 4>>)
    ELSE None

\* Water.get_energy, by the lookups ad_map.get_energy is asked for, in the
\* order of the loop: the energy returned is the sum of their grid values.
\* self.get_coordinates (line 67) raises AttributeError before any lookup;
\* with that name and get_atom_types bound, they are Molecule's two.
GetEnergy(w, atom_id) ==
    LET ids == IF atom_id.none THEN DefaultAtomId(Len(w.atoms)) ELSE atom_id
        coordinates == Coordinates(w, ids)
        types == AtomTypes(w, ids)
    IN  IF ~HasAttr("get_coordinates") \/ ~HasAttr("get_atom_types")
        THEN [err |-> "AttributeError", lookups |-> <<>>]
        ELSE [err |-> "",
              lookups |-> [k \in 1..Min({Len(coordinates), Len(types)}) |->
                              [coordinate |-> coordinates[k], atom_type |-> types[k]]]]

\* The explicit selections of the model: one atom of the water.
ExplicitIds(w) == {Ids(<<k>>) : k \in 0..(Len(w.atoms) - 1)}

W_GetEnergy ==
    /\ w_atoms # <<>>
    /\ \E atom_id \in {None} \cup ExplicitIds(TheWater) :
           LET ret == GetEnergy(TheWater, atom_id)
           IN  w_energy' = [atom_id |-> atom_id, atoms |-> w_atoms, err |-> ret.err,
                            lookups |-> ret.lookups]
    /\ UNCHANGED <<mol, icVars, hyVars, naVars, hvVars, gaVars, w_atoms, w_bonds, w_anchor,
                   w_anchor_type, w_builds, w_moves, w_last, w_hb_anchors>>

\* The water as the molecule the inherited methods work on: the atoms by
\* Id, the bonds of add_atom in the order they were added, the atomic numbers.
WaterMol(w) ==
    LET n == Len(w.atoms)
    IN  [n |-> n,
         adj |-> [a \in 0..(n - 1) |->
                     LET Touches(bond) == bond[1] = a + 1 \/ bond[2] = a + 1
                         own == SelectSeq(w.bonds, Touches)
                     IN  [k \in 1..Len(own) |-> Neighbor(own[k], a + 1) - 1]],
         anum |-> [a \in 0..(n - 1) |-> w.atoms[a + 1].num]]

\* atom_ids of lines 133-138
WaterAnchorIds(anchor_type) ==
    IF anchor_type = "acceptor" THEN <<3, 4, 5>> ELSE <<2, 3, 5>>

\* names of lines 133-138
WaterAnchorNames(anchor_type) ==
    IF anchor_type = "acceptor" THEN <<"H_O_004", "O_L_000", "O_L_000">>
    ELSE <<"H_O_004", "H_O_004", "O_L_000">>

RECURSIVE WaterAnchorLoop(_, _, _, _, _, _, _)
\* The loop of lines 140-150 from its k-th round on.  hb_type keeps the
\* value of the round before when a definition has neither role, and is
\* unbound ("") before the first assignment.  self._get_hb_vectors (line 149)
\* raises AttributeError in the first round, before its arguments are
\* evaluated; with the name bound to Molecule._hb_vectors, an exception of it
\* or of the read of an unbound hb_type leaves the loop with the anchors
\* made so far.
WaterAnchorLoop(w, types, names, atom_ids, k, hb_type, anchors) ==
    IF k > Min({Len(names), Len(atom_ids)}) THEN [err |-> "", anchors |-> anchors]
    ELSE LET name == names[k]
             idx == atom_ids[k]
             atom_type == TypeOf(types, name)
             type == IF atom_type.hb_type = 1 THEN "donor"
                     ELSE IF atom_type.hb_type = 2 THEN "acceptor"
                     ELSE hb_type
             vectors == HbVectors(WaterMol(w), idx - 1, atom_type.hyb, atom_type.n_water,
                                  atom_type.hb_length, w.atoms[idx].xyz.dist)
         IN  IF ~HasAttr("_get_hb_vectors")
             THEN [err |-> "AttributeError", anchors |-> anchors]
             ELSE IF idx > Len(w.atoms) THEN [err |-> "AttributeError", anchors |-> anchors]
             ELSE IF ~vectors.ok THEN [err |-> vectors.err, anchors |-> anchors]
             ELSE IF type = "" THEN [err |-> "UnboundLocalError", anchors |-> anchors]
             ELSE WaterAnchorLoop(w, types, names, atom_ids, k + 1, type,
                      Append(anchors, [idx |-> idx, name |-> name, type |-> type,
                                       vectors |-> vectors.vectors]))

\* Water.guess_hydrogen_bond_anchors: the dictionary as rows (idx, name,
\* type, vectors) in the order they were put in, and the exception that
\* ended the call, if any.
WaterGuessHydrogenBondAnchors(w, anchor_type, types) ==
    WaterAnchorLoop(w, types, WaterAnchorNames(anchor_type), WaterAnchorIds(anchor_type),
                    1, "", <<>>)

W_GuessAnchors ==
    /\ w_atoms # <<>>
    /\ atom_types # <<>>
    /\ w_hb_anchors' =
           LET ret == WaterGuessHydrogenBondAnchors(TheWater, w_anchor_type, atom_types)
           IN  [n_atoms |-> Len(w_atoms), err |-> ret.err, anchors |-> ret.anchors]
    /\ UNCHANGED <<mol, icVars, hyVars, naVars, hvVars, gaVars, w_atoms, w_bonds, w_anchor,
                   w_anchor_type, w_builds, w_moves, w_last, w_energy>>

\* No water.
WIdle ==
    /\ w_atoms = <<>>
    /\ w_bonds = <<>>
    /\ w_anchor = 0
    /\ w_anchor_type = ""
    /\ w_builds = 0
    /\ w_moves = 0
    /\ w_last = NoCall
    /\ w_energy = <<>>
    /\ w_hb_anchors = <<>>

---------------------------------------------------------------------------
(* Molecule.is_clash *)

(* Coordinates are positions on one line, in steps of 0.5 Angstrom; the     *)
(* radius is in the same steps.                                            *)

Abs(x) == IF x < 0 THEN 0 - x ELSE x

\* utils.get_euclidean_distance: the distance of every point of a to every
\* point of b, one row for each point of a.
GetEuclideanDistance(a, b) ==
    [i \in 1..Len(a) |-> [j \in 1..Len(b) |-> Abs(a[i] - b[j])]]

\* An optional argument: left out, or given.
Omitted == [none |-> TRUE, value |-> <<>>]
Given(value) == [none |-> FALSE, value |-> value]

\* The test with a distance equal to the radius counted as a clash.
BelowOrAtZero(d) == d <= 0

\* d < 0. of line 196
BelowZero(d) == d < 0

\* Molecule.is_clash.
IsClash(self_xyz, xyz, molecule, radius) ==
    LET atoms == IF ~molecule.none THEN molecule.value ELSE self_xyz
        d == GetEuclideanDistance(xyz, atoms)
        dr == IF ~radius.none
              THEN [i \in 1..Len(d) |-> [j \in 1..Len(d[i]) |-> d[i][j] - radius.value]]
              ELSE d
    IN  \E i \in 1..Len(dr) : \E j \in 1..Len(dr[i]) : BelowZero(dr[i][j])

\* The positions, the lists of positions and the radii of the model.
ClashPositions == 0..2
ClashPoints == UNION {[1..n -> ClashPositions] : n \in 1..MaxPoints}
ClashRadii == {Omitted} \cup {Given(r) : r \in 1..3}

IC_Call ==
    /\ ic_pc = "idle"
    /\ \E self_xyz \in ClashPoints, xyz \in ClashPoints,
          molecule \in {Omitted} \cup {Given(atoms) : atoms \in ClashPoints},
          radius \in ClashRadii :
           /\ ic_args' = [self_xyz |-> self_xyz, xyz |-> xyz, molecule |-> molecule,
                          radius |-> radius]
           /\ ic_ret' = IsClash(self_xyz, xyz, molecule, radius)
    /\ ic_pc' = "done"
    /\ UNCHANGED <<mol, hyVars, naVars, hvVars, gaVars, wVars>>

\* The caller takes the result.
IC_Drop ==
    /\ ic_pc = "done"
    /\ ic_pc' = "idle"
    /\ ic_args' = <<>>
    /\ ic_ret' = FALSE
    /\ UNCHANGED <<mol, hyVars, naVars, hvVars, gaVars, wVars>>

\* is_clash was not called.
IcIdle ==
    /\ ic_pc = "idle"
    /\ ic_args = <<>>
    /\ ic_ret = FALSE

---------------------------------------------------------------------------
(* Waterkit.hydrate *)

\* The layer after which the loop always stops (line 70): the segid of the
\* PDB format has one letter, A to Z.
LastLayer == 26

\* n_layer of the command line: any integer, 0 when the option is left out.
LayerCounts == {0 - 1, 0, 1, 2, LastLayer, LastLayer + 1}

\* WaterBox.build_next_shell: True when water molecules could be placed.
BuildNextShell == BOOLEAN

\* A fresh WaterBox, by the number of shells built into it and what the
\* last call of build_next_shell returned.
NewWaterBox == [shells |-> 0, built |-> TRUE]

\* The test with the counter already one ahead.
LayerStopAfter(i, n_layer) == i = n_layer + 1 \/ i = LastLayer + 1

\* i == n_layer or i == 26 (line 70)
LayerStop(i, n_layer) == i = n_layer \/ i = LastLayer

\* hydrate is called on a Waterkit without boxes.
HY_Call ==
    /\ hy_pc = "idle"
    /\ \E n_layer \in LayerCounts, n_sample \in 0..MaxSamples :
           hy_args' = [n_layer |-> n_layer, n_sample |-> n_sample]
    /\ hy_n' = 0
    /\ hy_pc' = "for"
    /\ UNCHANGED <<mol, icVars, naVars, hvVars, gaVars, wVars, hy_i, hy_box, water_boxes>>

\* for n in range(0, n_sample): the next sample gets its box and i = 1.
HY_Sample ==
    /\ hy_pc = "for"
    /\ hy_n < hy_args.n_sample
    /\ hy_box' = NewWaterBox
    /\ hy_i' = 1
    /\ hy_pc' = "while"
    /\ UNCHANGED <<mol, icVars, naVars, hvVars, gaVars, wVars, hy_args, hy_n, water_boxes>>

\* One round of the while loop: build_next_shell, then the two breaks or
\* the increment.
HY_Shell ==
    /\ hy_pc = "while"
    /\ \E built \in BuildNextShell :
           IF ~built
           THEN /\ hy_box' = [hy_box EXCEPT !.built = FALSE]
                /\ hy_pc' = "append"
                /\ hy_i' = hy_i
           ELSE /\ hy_box' = [shells |-> hy_box.shells + 1, built |-> TRUE]
                /\ IF LayerStop(hy_i, hy_args.n_layer)
                   THEN hy_pc' = "append" /\ hy_i' = hy_i
                   ELSE hy_pc' = "while" /\ hy_i' = hy_i + 1
    /\ UNCHANGED <<mol, icVars, naVars, hvVars, gaVars, wVars, hy_args, hy_n, water_boxes>>

\* self.water_boxes.append(w_ori), and on to the next sample.
HY_Append ==
    /\ hy_pc = "append"
    /\ water_boxes' = Append(water_boxes, hy_box)
    /\ hy_n' = hy_n + 1
    /\ hy_pc' = "for"
    /\ UNCHANGED <<mol, icVars, naVars, hvVars, gaVars, wVars, hy_args, hy_i, hy_box>>

\* The range is used up: hydrate returns.
HY_Return ==
    /\ hy_pc = "for"
    /\ hy_n >= hy_args.n_sample
    /\ hy_pc' = "done"
    /\ UNCHANGED <<mol, icVars, naVars, hvVars, gaVars, wVars, hy_args, hy_n, hy_i, hy_box,
                   water_boxes>>

\* hydrate was not called.
HyIdle ==
    /\ hy_pc = "idle"
    /\ hy_args = <<>>
    /\ hy_n = 0
    /\ hy_i = 0
    /\ hy_box = 0
    /\ water_boxes = <<>>

---------------------------------------------------------------------------
(* Specifications *)

InitNeighbors ==
    /\ mol \in Molecules
    /\ NaIdle
    /\ HvIdle
    /\ atom_types = <<>>
    /\ GaIdle
    /\ WIdle
    /\ IcIdle
    /\ HyIdle

NextNeighbors == NA_Call \/ NA_Pop \/ NA_Return

SpecNeighbors == InitNeighbors /\ [][NextNeighbors]_vars

\* The molecules _hb_vectors is called on in the model: those without
\* hydrogens, which the vectors do not depend on (hydrogens only change the
\* order inside a level of neighbors, and the geometry of the model is the
\* distance d1).
VectorMolecules == {m \in Molecules : \A a \in 0..(NumAtoms(m) - 1) : m.anum[a] # Hydrogen}

InitVectors ==
    /\ mol \in VectorMolecules
    /\ NaIdle
    /\ HvIdle
    /\ atom_types = <<>>
    /\ GaIdle
    /\ WIdle
    /\ IcIdle
    /\ HyIdle

NextVectors == HV_Call \/ HV_Drop

SpecVectors == InitVectors /\ [][NextVectors]_vars

InitAnchors ==
    /\ mol \in AnchorMolecules
    /\ atom_types \in Waterfields
    /\ NaIdle
    /\ HvIdle
    /\ GaIdle
    /\ WIdle
    /\ IcIdle
    /\ HyIdle

NextAnchors == GA_Call \/ GA_Type \/ GA_Match \/ GA_EndType \/ GA_Finish

SpecAnchors == InitAnchors /\ [][NextAnchors]_vars

\* A molecule no method of which has run.
InitClash ==
    /\ mol = MakeMol(1, <<>>, [a \in {0} |-> Oxygen])
    /\ NaIdle
    /\ HvIdle
    /\ atom_types = <<>>
    /\ GaIdle
    /\ WIdle
    /\ IcIdle
    /\ HyIdle

\* A water as Water.__init__ leaves it: the oxygen one or two units from the
\* anchor atom, which is at 0.
InitWater ==
    /\ mol = MakeMol(1, <<>>, [a \in {0} |-> Oxygen])
    /\ NaIdle
    /\ HvIdle
    /\ atom_types = <<>>
    /\ GaIdle
    /\ \E oxygen_at \in {1, 2}, oxygen_type \in {"OA"} :
           /\ w_atoms = NewWater(oxygen_at, oxygen_type).atoms
           /\ w_bonds = NewWater(oxygen_at, oxygen_type).bonds
    /\ w_anchor = 0
    /\ w_anchor_type \in {"acceptor", "donor"}
    /\ w_builds = 0
    /\ w_moves = 0
    /\ w_last = NoCall
    /\ w_energy = <<>>
    /\ w_hb_anchors = <<>>
    /\ IcIdle
    /\ HyIdle

\* A water as Water.__init__ leaves it, and a waterfield.
InitWaterAnchors ==
    /\ mol = MakeMol(1, <<>>, [a \in {0} |-> Oxygen])
    /\ NaIdle
    /\ HvIdle
    /\ atom_types \in Waterfields
    /\ GaIdle
    /\ \E oxygen_at \in {1}, oxygen_type \in {"OA"} :
           /\ w_atoms = NewWater(oxygen_at, oxygen_type).atoms
           /\ w_bonds = NewWater(oxygen_at, oxygen_type).bonds
    /\ w_anchor = 0
    /\ w_anchor_type \in {"acceptor", "donor"}
    /\ w_builds = 0
    /\ w_moves = 0
    /\ w_last = NoCall
    /\ w_energy = <<>>
    /\ w_hb_anchors = <<>>
    /\ IcIdle
    /\ HyIdle

NextWater ==
    W_AddAtom \/ W_UpdateCoordinates \/ W_BuildTip5p \/ W_Translate \/ W_Rotate

SpecWater == InitWater /\ [][NextWater]_vars

\* The calls a water gets after its construction when nothing outside the
\* class adds atoms to it.
NextWaterCalls == W_BuildTip5p \/ W_Translate \/ W_Rotate

SpecWaterCalls == InitWater /\ [][NextWaterCalls]_vars

\* A Waterkit object as __init__ leaves it.
InitHydrate == InitClash

NextHydrate == HY_Call \/ HY_Sample \/ HY_Shell \/ HY_Append \/ HY_Return

\* hydrate runs on: every call it makes returns, and it takes its next step.
SpecHydrate == InitHydrate /\ [][NextHydrate]_vars /\ WF_vars(NextHydrate)

NextClash == IC_Call \/ IC_Drop

SpecClash == InitClash /\ [][NextClash]_vars

\* The anchors of a water as its atoms are added.
NextWaterAnchors == W_AddAtom \/ W_BuildTip5p \/ W_GuessAnchors

SpecWaterAnchors == InitWaterAnchors /\ [][NextWaterAnchors]_vars

\* The energy of a water as its atoms are added.
NextEnergy == W_AddAtom \/ W_BuildTip5p \/ W_GetEnergy

SpecEnergy == InitWater /\ [][NextEnergy]_vars

---------------------------------------------------------------------------
(* Neighbor traversal: properties *)

IsHydrogen(a) == mol.anum[a] = Hydrogen
IsHeavy(a) == mol.anum[a] # Hydrogen

\* Where atom a stands in the returned nested list: the (level, position) pairs.
Places(a) == {p \in (1..Len(na_ret)) \X (1..MaxAtoms * MaxAtoms) :
                 p[2] <= Len(na_ret[p[1]]) /\ na_ret[p[1]][p[2]] = a}

RECURSIVE DistFrom(_, _, _, _, _)
\* Bond distance of atom a from the atoms of frontier (at distance d from the
\* start), walking only through atoms the traversal may expand to; -1 when
\* a cannot be reached.
DistFrom(keep, seen, frontier, d, a) ==
    IF a \in frontier THEN d
    ELSE IF frontier = {} THEN 0 - 1
    ELSE DistFrom(keep, seen \cup frontier,
                  {b \in UNION {Range(mol.adj[x]) : x \in frontier} :
                       mol.anum[b] >= keep} \ (seen \cup frontier),
                  d + 1, a)

BondDistance(a) ==
    DistFrom(AtomicNumToKeep(na_args.hydrogen), {}, {na_args.start_index}, 0, a)

\* C6: in the result of neighbor_atoms every atom stands at most once, in the
\* level of its bond distance from the start atom, and no atom farther than
\* depth bonds away appears.
C6_VisitedOnceAtFirstDepth ==
    na_pc = "done" =>
        \A a \in 0..(NumAtoms(mol) - 1) :
            /\ Cardinality(Places(a)) <= 1
            /\ \A p \in Places(a) :
                   /\ p[1] - 1 = BondDistance(a)
                   /\ p[1] - 1 <= na_args.depth

\* C7: every returned level is the stable partition of the level as it was
\* discovered: the non-hydrogen atoms in discovery order, then the hydrogens
\* in discovery order.
C7_StablePartition ==
    na_pc = "done" =>
        /\ Len(na_ret) = Len(neighbors)
        /\ \A l \in 1..Len(neighbors) :
               na_ret[l] = SelectSeq(neighbors[l], IsHeavy) \o SelectSeq(neighbors[l], IsHydrogen)

\* A level discovered with hydrogens standing before a heavy atom and with
\* two hydrogens and a heavy atom in it has been returned.
C7_Witness ==
    /\ na_pc = "done"
    /\ \E l \in 1..Len(neighbors) :
           /\ Len(neighbors[l]) >= 3
           /\ IsHydrogen(neighbors[l][1])
           /\ IsHeavy(neighbors[l][2])
           /\ IsHydrogen(neighbors[l][3])
           /\ na_ret[l] # neighbors[l]

---------------------------------------------------------------------------
(* Anchor vector computation: properties *)

\* C8: for every pair of the design table for which _hb_vectors succeeds,
\* every returned vector lies at distance hb_length from the anchor, whether
\* it was rotated in the final loop or not.
C8_VectorsAtBondLength ==
    (hv_pc = "done" /\ hv_ret.ok /\ InDesignTable(hv_args.hyb, hv_args.n_hbond)) =>
        \A k \in 1..Len(hv_ret.vectors) : hv_ret.vectors[k].dist = hv_args.hb_length

\* Three vectors were returned for a base point that did not lie at
\* hb_length: the first left unrotated by the loop, the others rotated.
C8_Witness ==
    /\ hv_pc = "done"
    /\ hv_ret.ok
    /\ hv_args.d1 # hv_args.hb_length
    /\ Len(hv_ret.vectors) = 3
    /\ hv_ret.vectors[1].angle = TetrahedralTilt
    /\ hv_ret.vectors[2].angle = 0 - 120
    /\ hv_ret.vectors[3].angle = 120

\* _hb_vectors was called for the tetrahedral case with three contacts
\* (hybridization 3, or 1 or 2 sent on to it) on an atom with exactly one
\* bonded neighbor.
TetrahedralOnOneNeighbor ==
    /\ hv_pc = "done"
    /\ hv_args.hyb \in {1, 2, 3}
    /\ hv_args.n_hbond = 3
    /\ Len(mol.adj[hv_args.idx]) = 1

\* C14: for hybridization 3 with three contacts, and for hybridization 1 or
\* 2 with three contacts, one bonded neighbor of the anchor is enough:
\* _hb_vectors returns, with exactly three vectors.
C14_OneNeighborSuffices ==
    TetrahedralOnOneNeighbor => (hv_ret.ok /\ Len(hv_ret.vectors) = 3)

---------------------------------------------------------------------------
(* Anchor discovery: properties *)

AtomIdxs == 1..NumAtoms(mol)

\* The definition that first matched atom idx in this pass.
FirstType(idx) == TypeOf(atom_types, first_match[idx])

HasRole(idx) == first_match[idx] # "" /\ HbType(FirstType(idx)) # "None"

\* What _hb_vectors gives for atom idx under its first matching definition.
Expected(idx) ==
    HbVectors(mol, idx - 1, FirstType(idx).hyb, FirstType(idx).n_water,
              FirstType(idx).hb_length, BondDist)

\* The vector computation of atom idx failed in this pass.
Failed(idx) == HasRole(idx) /\ ~Expected(idx).ok

RowsFor(tab, idx) == {k \in 1..Len(tab) : tab[k].atom_i = idx - 1}

WarningsFor(idx) == {k \in 1..Len(stdout) : stdout[k][1] = idx}

OneRole(tab) ==
    \A j, k \in 1..Len(tab) :
        tab[j].atom_i = tab[k].atom_i =>
            /\ tab[j].anchor_type = tab[k].anchor_type
            /\ tab[j].anchor_name = tab[k].anchor_name

\* C1: all anchors that share an atom index carry the same role and the same
\* source-type name, in the rows collected during the pass and in the table
\* it stores.
C1_OneRolePerAtom == OneRole(data) /\ OneRole(hydrogen_bond_anchors)

\* A pass has ended in which an atom holding anchors was matched again by a
\* definition of another role.
C1_Witness ==
    /\ ga_pc = "done"
    /\ \E idx \in rematched :
           /\ RowsFor(hydrogen_bond_anchors, idx) # {}
           /\ \E k \in 1..Len(processed) :
                  /\ HbType(TypeOf(atom_types, processed[k])) \notin
                         {"None", HbType(FirstType(idx))}

FirstMatchWins(tab) ==
    /\ \A k \in 1..Len(tab) : tab[k].anchor_name = first_match[tab[k].atom_i + 1]
    /\ \A idx \in AtomIdxs :
           (first_match[idx] # "" /\ ~HasRole(idx)) => RowsFor(tab, idx) = {}

\* C2: the definitions are taken in reverse declaration order; the anchors of
\* an atom all come from the first definition that matched it, and an atom
\* whose first matching definition has no role has no anchors.
C2_ReverseOrderFirstMatchWins ==
    /\ processed = SubSeq(Reverse(Keys(atom_types)), 1, Len(processed))
    /\ FirstMatchWins(data)
    /\ FirstMatchWins(hydrogen_bond_anchors)

\* A pass has ended in which an atom first matched by a role-less definition
\* was matched again by a later definition that has a role.
C2_Witness ==
    /\ ga_pc = "done"
    /\ \E idx \in rematched :
           /\ ~HasRole(idx)
           /\ RowsFor(hydrogen_bond_anchors, idx) = {}
           /\ HbType(TypeOf(atom_types, processed[Len(processed)])) # "None"
    /\ hydrogen_bond_anchors # <<>>

\* C3: a failing vector computation does not end the pass: no exception
\* leaves it, every definition and every match is processed, every atom
\* whose computation succeeds has all its anchors, and a failing atom has
\* none.
C3_FailureDoesNotAbort ==
    /\ ga_pc # "raised"
    /\ ga_pc = "done" =>
           /\ Len(processed) = Len(atom_types)
           /\ matches = <<>>
           /\ \A idx \in AtomIdxs :
                  Cardinality(RowsFor(hydrogen_bond_anchors, idx)) =
                      IF HasRole(idx) /\ Expected(idx).ok
                      THEN Len(Expected(idx).vectors) ELSE 0

\* A pass has ended in which the first warning was followed by anchors of a
\* definition processed later.
C3_Witness ==
    /\ ga_pc = "done"
    /\ stdout # <<>>
    /\ \E k \in 1..Len(hydrogen_bond_anchors), i, j \in 1..Len(processed) :
           /\ processed[i] = stdout[1][2]
           /\ processed[j] = hydrogen_bond_anchors[k].anchor_name
           /\ i < j

\* A row that stands for a failure: it carries an error kind.
IsErrorRow(row) == "error_kind" \in DOMAIN row

\* The list of failures in what the pass leaves its caller.  The method has
\* no return statement, so all the caller is left with is
\* self.hydrogen_bond_anchors (line 345): the list is what that table holds
\* of failures.
ErrorList == SelectSeq(hydrogen_bond_anchors, IsErrorRow)

ErrorsFor(idx) == {k \in 1..Len(ErrorList) : ErrorList[k].atom_i = idx - 1}

\* C4: when the pass has ended, the caller holds a list with exactly one
\* (atom index, error kind) entry for every atom whose vector computation
\* failed, the kind being that of the error _hb_vectors raised.
C4_ErrorListReturned ==
    ga_pc = "done" =>
        \A idx \in AtomIdxs :
            Failed(idx) =>
                /\ Cardinality(ErrorsFor(idx)) = 1
                /\ \A k \in ErrorsFor(idx) : ErrorList[k].error_kind = Expected(idx).err

\* C5: a definition whose hybridization/contact-count pair is outside the
\* design table never ends as a warning and a dropped anchor in a pass that
\* goes on: the caller gets the error.
C5_UnsupportedCaseSurfaced ==
    \A k \in 1..Len(stdout) :
        InDesignTable(TypeOf(atom_types, stdout[k][2]).hyb,
                      TypeOf(atom_types, stdout[k][2]).n_water)

---------------------------------------------------------------------------
(* Water: properties *)

\* The satellite sites: every atom but the oxygen.
NumSatellites == Len(w_atoms) - 1

\* What a satellite is by its geometry: a hydrogen sits at 0.9572 Angstrom
\* from the oxygen, a lone pair at 0.7.
SiteKind(atom) == IF atom.xyz.dist = DistH THEN "H" ELSE "Lp"

\* What a satellite is by its atom type.
LabelKind(atom) == IF atom.type = "HD" THEN "H" ELSE atom.type

Kinds(g) == [j \in 1..Len(g) |-> SiteKind(g[j])]
Labels(g) == [j \in 1..Len(g) |-> LabelKind(g[j])]

\* C9: a water has exactly 0 or exactly 4 satellite sites besides its oxygen.
C9_ZeroOrFourSatellites == w_atoms # <<>> => NumSatellites \in {0, 4}

\* A water on which build_tip5p was called twice and translate or rotate
\* once, the last build_tip5p call having failed.
C9_Witness ==
    /\ w_builds = 2
    /\ w_moves >= 1
    /\ w_last.op = "build_tip5p"
    /\ w_last.err # ""
    /\ NumSatellites = 0

\* The last call was build_tip5p on a water that had its oxygen alone.
BuiltOnOxygen == w_last.op = "build_tip5p" /\ Len(w_last.before) = 1

\* The atoms the last call added to the water.
Emitted == SubSeq(w_atoms, Len(w_last.before) + 1, Len(w_atoms))

\* C10: build_tip5p on a water of the oxygen alone emits four satellites,
\* which stand as [H, H, Lp, Lp] for an acceptor and as [Lp, Lp, H, H] for a
\* donor, with the atom types to match.
C10_RoleDependentOrder ==
    BuiltOnOxygen =>
        /\ Kinds(Emitted) = IF w_anchor_type = "acceptor"
                            THEN <<"H", "H", "Lp", "Lp">> ELSE <<"Lp", "Lp", "H", "H">>
        /\ Labels(Emitted) = Kinds(Emitted)

---------------------------------------------------------------------------
(* Water.rotate: properties *)

\* The last call was rotate on a five-site water about one of its satellites.
RotatedFiveSite ==
    /\ w_last.op = "rotate"
    /\ Len(w_last.before) = 5
    /\ w_last.ref_id \in 1..4

\* C11: rotate on a five-site water about a satellite returns and leaves the
\* oxygen and the reference site where they were, and rotate(angle, ref)
\* followed by rotate(-angle, ref) returns every site to where it was before
\* the first of the two calls.
C11_RotateThereAndBack ==
    RotatedFiveSite =>
        /\ w_last.err = ""
        /\ w_atoms[1] = w_last.before[1]
        /\ w_atoms[w_last.ref_id + 1] = w_last.before[w_last.ref_id + 1]
        /\ w_last.undoes => w_atoms = w_last.origin

---------------------------------------------------------------------------
(* Water.get_energy: properties *)

\* get_energy was called without a selection on a water of n sites.
DefaultEnergyOf(n) ==
    /\ w_energy # <<>>
    /\ w_energy.atom_id.none
    /\ Len(w_energy.atoms) = n

\* The lookup of the site with Id a of the water get_energy was called on.
LookupOf(a) ==
    [coordinate |-> w_energy.atoms[a + 1].xyz, atom_type |-> w_energy.atoms[a + 1].type]

\* C12: get_energy without a selection returns the energy of exactly the
\* oxygen of a one-site water and of exactly the four satellites (sites 1..4,
\* not the oxygen) of a five-site water, each looked up at its own
\* coordinates with its own atom type.
C12_DefaultEnergySites ==
    /\ DefaultEnergyOf(1) =>
           w_energy.err = "" /\ w_energy.lookups = <<LookupOf(0)>>
    /\ DefaultEnergyOf(5) =>
           /\ w_energy.err = ""
           /\ w_energy.lookups = <<LookupOf(1), LookupOf(2), LookupOf(3), LookupOf(4)>>

---------------------------------------------------------------------------
(* Molecule.is_clash: properties *)

\* The atoms is_clash tests against: those of the other molecule when one
\* is given, its own otherwise.
ReferenceSet == IF ic_args.molecule.none THEN ic_args.self_xyz ELSE ic_args.molecule.value

\* The exclusion radius, 0 when it is left out.
ExclusionRadius == IF ic_args.radius.none THEN 0 ELSE ic_args.radius.value

\* The distances of the pairs (tested point, reference atom).
PairDistances ==
    {Abs(ic_args.xyz[i] - ReferenceSet[j]) :
        i \in 1..Len(ic_args.xyz), j \in 1..Len(ReferenceSet)}

\* C13: is_clash returns true if and only if some pair (tested point,
\* reference atom) has its distance minus the exclusion radius (0 when the
\* radius is left out) strictly below zero; a pair at exactly the radius is
\* no clash, and a single pair at distance 1.0 clashes with radius 1.5 and
\* not with radius 0.5.
C13_ClashIffStrictlyInside ==
    ic_pc = "done" =>
        /\ ic_ret = (\E d \in PairDistances : d - ExclusionRadius < 0)
        /\ (\A d \in PairDistances : d >= ExclusionRadius) => ~ic_ret
        /\ PairDistances = {2} =>
               /\ ExclusionRadius = 3 => ic_ret
               /\ ExclusionRadius = 1 => ~ic_ret

\* A point exactly at the radius from one atom and farther from the other
\* was tested, and was no clash.
C13_Witness ==
    /\ ic_pc = "done"
    /\ ~ic_args.radius.none
    /\ PairDistances = {ExclusionRadius, ExclusionRadius + 1}
    /\ ~ic_ret

---------------------------------------------------------------------------
(* Water.guess_hydrogen_bond_anchors: properties *)

\* guess_hydrogen_bond_anchors was called on a five-site water.
GuessedFiveSite ==
    /\ w_hb_anchors # <<>>
    /\ w_hb_anchors.n_atoms = 5

\* The satellites (by atom Idx) that were made anchors.
AnchorSites == {w_hb_anchors.anchors[k].idx : k \in 1..Len(w_hb_anchors.anchors)}

\* The satellite build_tip5p put on the line from the oxygen toward the
\* anchor atom of the water (the point a1).
OnAnchorLine == {idx \in 2..5 : w_atoms[idx].xyz.slot = "a1"}

\* C15: on a five-site water guess_hydrogen_bond_anchors makes anchors of
\* exactly three of the four satellites: not of the one on the line from the
\* oxygen toward the water's own anchor atom (Idx 2 of an acceptor water,
\* Idx 4 of a donor water), and each of the others is given the name
\* H_O_004 when it is labelled a hydrogen (HD) and O_L_000 when it is
\* labelled a lone pair (Lp), for both roles.
C15_ThreeOfFourSatellites ==
    GuessedFiveSite =>
        /\ w_hb_anchors.err = ""
        /\ Len(w_hb_anchors.anchors) = 3
        /\ OnAnchorLine = {IF w_anchor_type = "acceptor" THEN 2 ELSE 4}
        /\ AnchorSites = (2..5) \ OnAnchorLine
        /\ \A k \in 1..Len(w_hb_anchors.anchors) :
               LET anchor == w_hb_anchors.anchors[k]
               IN  /\ w_atoms[anchor.idx].type = "HD" => anchor.name = "H_O_004"
                   /\ w_atoms[anchor.idx].type = "Lp" => anchor.name = "O_L_000"
                   /\ w_atoms[anchor.idx].type \in {"HD", "Lp"}

---------------------------------------------------------------------------
(* Waterkit.hydrate: properties *)

\* The boxes of the call so far: those appended and, inside the while loop
\* or just after it, the one being built.
BoxesSoFar == IF hy_pc \in {"while", "append"} THEN Append(water_boxes, hy_box) ELSE water_boxes

\* The layer limit of the call: n_layer when it is in 1..26, else 26.
LayerLimit ==
    IF hy_args.n_layer \in 1..LastLayer THEN hy_args.n_layer ELSE LastLayer

\* No sample has more successful shell builds than the limit; a finished
\* box stopped on a False of build_next_shell or at the limit; one box is
\* appended for each sample gone through, n_sample in all at the return.
LayersBounded ==
    hy_pc # "idle" =>
        /\ \A k \in 1..Len(BoxesSoFar) : BoxesSoFar[k].shells <= LayerLimit
        /\ \A k \in 1..Len(water_boxes) :
               water_boxes[k].built <=> water_boxes[k].shells = LayerLimit
        /\ Len(water_boxes) = hy_n
        /\ hy_n <= hy_args.n_sample
        /\ hy_pc = "done" => Len(water_boxes) = hy_args.n_sample

\* C16: in hydrate, for each sample build_next_shell is called until it
\* returns False or the successful calls reach n_layer or 26: a sample never
\* has more than 26 successful builds, at most n_layer when n_layer is in
\* 1..26, exactly one box is appended for each sample, and the call
\* returns.
C16_LayersBoundedAndReturns ==
    /\ []LayersBounded
    /\ (hy_pc # "idle") ~> (hy_pc = "done")

\* hydrate returned with n_layer = 0 and two samples: one stopped by the
\* limit of 26 layers, the other by build_next_shell.
C16_Witness ==
    /\ hy_pc = "done"
    /\ hy_args.n_layer = 0
    /\ Len(water_boxes) = 2
    /\ water_boxes[1].shells = LastLayer
    /\ water_boxes[2].shells < LastLayer

=============================================================================
